---------------------------- MODULE Spec2Model ----------------------------
(***************************************************************************)
(* Market-data synchronisation engine of src/App.tsx: the BinanceService   *)
(* singleton (ticker store, push-channel lifecycle, enrichment fetches,    *)
(* notification bus) and the App component that drives it (mount/unmount   *)
(* effect, enrichment scheduler).                                          *)
(*                                                                         *)
(* JavaScript runs every handler to completion on one event loop, so each  *)
(* handler (a method call, a WebSocket event, a timer callback, the        *)
(* continuation of an await) is one atomic action.                         *)
(***************************************************************************)
EXTENDS Integers, Sequences, FiniteSets, TLC

(***************************************************************************)
(* Bounds of the model.                                                    *)
(***************************************************************************)
\* WebSocket objects that are not yet closed, at most
MaxSock == 2
\* mounts of App in one behaviour
MaxMounts == 2
\* cap of reconnectAttempt; the delay reaches its ceiling at 6
MaxAttempt == 7
\* cap of the outstanding fetchDetailedStats invocations of one symbol
MaxStatsCalls == 2

\* BASE_WS_URLS.length
NumEndpoints == 2
\* domains.length in fetchInitialSnapshot
NumDomains == 2
\* rows rendered beyond each edge of the viewport
OVERSCAN == 10
\* the height used while the container has none
DefaultClientHeight == 600
\* the longest dataset of the windowing properties
MaxRows == 40
\* scroll offsets are the multiples of ScrollStep up to MaxScrollSteps of them
ScrollStep == 23
MaxScrollSteps == 90

SockIds == 1..MaxSock

Symbols == {"AUSDT", "BUSDT"}

SortFields == {"symbol", "price", "volume", "change1h", "change4h", "change24h",
               "change7d", "change30d"}

\* the column headers the model clicks
ClickedFields == {"symbol", "volume", "change7d"}

VARIABLES
    ws,                 \* BinanceService.ws: 0 is null, else a socket id
    socks,              \* the WebSocket objects: readyState and endpoint
    timers,             \* pending setTimeout(connectWebSocket, delay): the delays
    reconnectAttempt,   \* BinanceService.reconnectAttempt
    endpointIndex,      \* BinanceService.endpointIndex
    tickerMap,          \* BinanceService.tickerMap: its keys in insertion order
    objects,            \* the TickerData object stored under each key
    subscribers,        \* BinanceService.subscribers: callback ids
    pendingFetches,     \* BinanceService.pendingFetches
    statsCalls,         \* fetchDetailedStats invocations suspended at their await
    snapshotCalls,      \* fetchInitialSnapshot invocations: domain index awaited
    mounted,            \* the App component is mounted
    mounts,             \* number of times App was mounted
    tickerDataMap,      \* App state: keys of the Map last delivered
    isLoading,          \* App state
    loadingTimer,       \* App: the 10 s setTimeout is pending
    sortedSymbols,      \* App state
    sortField,          \* VirtualTable state
    sortDirection,      \* VirtualTable state
    interval,           \* App: setInterval timers of the scheduler effect not cleared
    intervalAge,        \* 1 when part of the period of that interval has elapsed
    scrollTop,          \* VirtualTable state
    clientHeight,       \* containerRef.current.clientHeight; 0 without a container
    disconnectRequested,\* history: disconnect() closed a live channel, no connect() since
    closesSinceOpen     \* history: close events since the last open event

connVars == <<ws, socks, timers, reconnectAttempt, endpointIndex>>
storeVars == <<tickerMap, objects, pendingFetches, statsCalls>>
tableVars == <<scrollTop, clientHeight>>
appVars == <<tickerDataMap, isLoading, loadingTimer, sortedSymbols, sortField, sortDirection,
             interval, scrollTop, clientHeight>>
histVars == <<disconnectRequested, closesSinceOpen>>
vars == <<ws, socks, timers, reconnectAttempt, endpointIndex, tickerMap, objects,
          subscribers, pendingFetches, statsCalls, snapshotCalls, mounted, mounts,
          tickerDataMap, isLoading, loadingTimer, sortedSymbols, sortField,
          sortDirection, interval, intervalAge, scrollTop, clientHeight,
          disconnectRequested, closesSinceOpen>>

----------------------------------------------------------------------------
(* Helpers *)

Range(seq) == {seq[i] : i \in DOMAIN seq}

RemoveAt(seq, i) == [j \in 1..(Len(seq) - 1) |-> IF j < i THEN seq[j] ELSE seq[j + 1]]

RECURSIVE Pow(_, _)
Pow(b, n) == IF n = 0 THEN 1 ELSE b * Pow(b, n - 1)

\* An optional number: undefined, or a value
Undefined == <<>>
Some(v) == <<v>>

\* Decimal text on the wire and parseFloat of it
Numerals == <<"0", "1", "2", "3", "4", "5", "6", "7", "8", "9">>
ParseFloat(str) == (CHOOSE i \in DOMAIN Numerals : Numerals[i] = str) - 1

----------------------------------------------------------------------------
(* Connection manager *)

\* Delays are held in 1/32 ms, which represents 1000 * 1.5^n exactly for every
\* n below the cap (1.5^n = 3^n / 2^n with n <= 5).
UnitsPerMs == Pow(2, 5)

\* mutant: the delay without its cap
ReconnectDelay_NoCap(n) == (1000 * UnitsPerMs * Pow(3, n)) \div Pow(2, n)

\* Math.min(1000 * 1.5 ** n, 10000)
ReconnectDelay(n) ==
    IF 1000 * Pow(3, n) >= 10000 * Pow(2, n)
    THEN 10000 * UnitsPerMs
    ELSE (1000 * UnitsPerMs * Pow(3, n)) \div Pow(2, n)

Live(k) == socks[k].readyState \in {"CONNECTING", "OPEN"}

ClosedSock == [readyState |-> "CLOSED", url |-> 0]

FreeSocks == {k \in SockIds : socks[k].readyState = "CLOSED"}

\* connectWebSocket(): the state of ws, socks after the call
ConnectWebSocket(w, ss) ==
    IF w # 0 /\ ss[w].readyState \in {"OPEN", "CONNECTING"}
    THEN <<w, ss>>
    ELSE LET k == CHOOSE x \in FreeSocks : \A y \in FreeSocks : x <= y
         IN  <<k, [ss EXCEPT ![k] = [readyState |-> "CONNECTING", url |-> endpointIndex]]>>

CanConnect == (ws # 0 /\ Live(ws)) \/ FreeSocks # {}

----------------------------------------------------------------------------
(* Ticker store *)

\* Map.prototype.set on the key order: an existing key keeps its position
MapSet(keys, k) == IF k \in Range(keys) THEN keys ELSE Append(keys, k)

\* A Map and the objects it refers to.  notify() and subscribe() copy the Map
\* (new Map(this.tickerMap)) but not the TickerData objects, so every delivered
\* Map refers to the objects of the store: a Map is its key order, and
\* objects[s] is the one object stored under s.
Put(st, k, rec) == [keys |-> MapSet(st.keys, k), objs |-> (k :> rec) @@ st.objs]

\* the object literal of fetchInitialSnapshot
SnapshotRecord(item) ==
    [symbol |-> item.symbol,
     price |-> ParseFloat(item.lastPrice),
     volume |-> ParseFloat(item.quoteVolume),
     changePercent24h |-> ParseFloat(item.priceChangePercent),
     changePercent1h |-> Undefined,
     changePercent4h |-> Undefined,
     changePercent7d |-> Undefined,
     changePercent30d |-> Undefined]

\* mutant: every listed symbol counts as trading
TradingSymbols_AnyStatus(info) == {info[i].symbol : i \in DOMAIN info}

\* infoData.symbols.filter(s => s.status === 'TRADING').map(s => s.symbol)
TradingSymbols(info) ==
    {info[i].symbol : i \in {j \in DOMAIN info : info[j].status = "TRADING"}}

\* tickerData.forEach(item => ...) of fetchInitialSnapshot
RECURSIVE ApplySnapshotRows(_, _, _)
ApplySnapshotRows(rows, trading, st) ==
    IF rows = <<>> THEN st
    ELSE LET item == Head(rows)
             next == IF item.symbol \notin trading \/ item.count = 0
                     THEN st
                     ELSE Put(st, item.symbol, SnapshotRecord(item))
         IN  ApplySnapshotRows(Tail(rows), trading, next)

\* mutant: the default object carries zero for its optional fields
Placeholder_ZeroOptional(s) ==
    [symbol |-> s, price |-> 0, volume |-> 0, changePercent24h |-> 0,
     changePercent1h |-> Some(0), changePercent4h |-> Some(0),
     changePercent7d |-> Some(0), changePercent30d |-> Some(0)]

\* the default object of ws.onmessage; its optional fields are absent
Placeholder(s) ==
    [symbol |-> s, price |-> 0, volume |-> 0, changePercent24h |-> 0,
     changePercent1h |-> Undefined, changePercent4h |-> Undefined,
     changePercent7d |-> Undefined, changePercent30d |-> Undefined]

\* mutant: the delta replaces the object instead of updating it
ApplyDelta_Rebuild(st, item) ==
    Put(st, item.s, [Placeholder(item.s) EXCEPT !.price = ParseFloat(item.c),
                                                !.volume = ParseFloat(item.q),
                                                !.changePercent24h = ParseFloat(item.P)])

\* the body of data.forEach(item => ...) in ws.onmessage
ApplyDelta(st, item) ==
    LET existing == IF item.s \in DOMAIN st.objs THEN st.objs[item.s]
                    ELSE Placeholder(item.s)
    IN  Put(st, item.s, [existing EXCEPT !.price = ParseFloat(item.c),
                                         !.volume = ParseFloat(item.q),
                                         !.changePercent24h = ParseFloat(item.P)])

\* data.forEach(...) in ws.onmessage: reading item.s of a null entry throws,
\* which leaves the entries before it applied
RECURSIVE ForEachDelta(_, _)
ForEachDelta(items, st) ==
    IF items = <<>> THEN [st |-> st, threw |-> FALSE]
    ELSE IF Head(items).isNull THEN [st |-> st, threw |-> TRUE]
    ELSE ForEachDelta(Tail(items), ApplyDelta(st, Head(items)))

\* the try block of ws.onmessage: the store after the frame, and whether
\* notify() was reached
OnMessage(frame, st) ==
    IF frame.text # "json" THEN [st |-> st, notified |-> FALSE]
    ELSE IF frame.data.tag = "none" THEN [st |-> st, notified |-> FALSE]
    ELSE LET data == IF frame.data.tag = "array" THEN frame.data.value
                     ELSE <<frame.data.value>>
             r == ForEachDelta(data, st)
         IN  [st |-> r.st, notified |-> ~r.threw]

\* mutant: a sub-request that is not OK overwrites its field with undefined
StatsMerge_Overwrite(item, res1h, res4h, klines) ==
    [item EXCEPT !.changePercent1h =
                    IF res1h.ok THEN Some(ParseFloat(res1h.json.priceChangePercent))
                    ELSE Undefined,
                 !.changePercent4h =
                    IF res4h.ok THEN Some(ParseFloat(res4h.json.priceChangePercent))
                    ELSE Undefined]

\* the merge of fetchDetailedStats into the stored object
StatsMerge(item, res1h, res4h, klines) ==
    LET a == IF res1h.ok
             THEN [item EXCEPT !.changePercent1h =
                                  Some(ParseFloat(res1h.json.priceChangePercent))]
             ELSE item
        b == IF res4h.ok
             THEN [a EXCEPT !.changePercent4h =
                               Some(ParseFloat(res4h.json.priceChangePercent))]
             ELSE a
        hasKlines == klines.ok /\ Len(klines.json) >= 8
        currentPrice == item.price
        index7d == Len(klines.json) - 1 - 7
        close7d == ParseFloat(klines.json[index7d + 1])
        c == IF hasKlines /\ index7d >= 0 /\ close7d > 0
             THEN [b EXCEPT !.changePercent7d =
                               Some(((currentPrice - close7d) * 100) \div close7d)]
             ELSE b
        index30d == Len(klines.json) - 1 - 30
        close30d == ParseFloat(klines.json[index30d + 1])
        d == IF hasKlines /\ index30d >= 0 /\ close30d > 0
             THEN [c EXCEPT !.changePercent30d =
                               Some(((currentPrice - close30d) * 100) \div close30d)]
             ELSE c
    IN  d

\* fetchDetailedStats after its await: a rejected sub-request rejects the
\* Promise.all and the catch block swallows it
StatsCompletion(symbol, resp, st) ==
    IF resp.r1h.rejected \/ resp.r4h.rejected \/ resp.klines.rejected
    THEN [st |-> st, notified |-> FALSE]
    ELSE IF symbol \notin DOMAIN st.objs
    THEN [st |-> st, notified |-> FALSE]
    ELSE [st |-> Put(st, symbol, StatsMerge(st.objs[symbol], resp.r1h, resp.r4h,
                                            resp.klines)),
          notified |-> TRUE]

----------------------------------------------------------------------------
(* Inputs: the responses and frames the exchange may send *)

\* a row of /api/v3/ticker/24hr
TickerRow(s, vol, count) ==
    [symbol |-> s, lastPrice |-> "2", quoteVolume |-> vol,
     priceChangePercent |-> "1", count |-> count]

SnapshotBodies ==
    { [ticker |-> <<TickerRow("AUSDT", "4", 9), TickerRow("BUSDT", "3", 9)>>,
       info |-> <<[symbol |-> "AUSDT", status |-> "TRADING"],
                  [symbol |-> "BUSDT", status |-> "TRADING"]>>],
      [ticker |-> <<TickerRow("AUSDT", "4", 9), TickerRow("BUSDT", "3", 0)>>,
       info |-> <<[symbol |-> "AUSDT", status |-> "TRADING"],
                  [symbol |-> "BUSDT", status |-> "TRADING"]>>],
      [ticker |-> <<TickerRow("BUSDT", "3", 9), TickerRow("AUSDT", "4", 9)>>,
       info |-> <<[symbol |-> "AUSDT", status |-> "BREAK"],
                  [symbol |-> "BUSDT", status |-> "TRADING"]>>] }

\* what one domain of fetchInitialSnapshot answers: the ok flags of tickerRes
\* and infoRes with the bodies, or a fetch or a json() that rejects
SnapshotAnswer(tickerOk, infoOk, body) ==
    [rejected |-> FALSE, tickerOk |-> tickerOk, infoOk |-> infoOk, body |-> body]

ErrorBody == [ticker |-> <<>>, info |-> <<>>]

SnapshotResponses ==
    {SnapshotAnswer(TRUE, TRUE, b) : b \in SnapshotBodies}
        \cup {SnapshotAnswer(TRUE, FALSE, ErrorBody),
              SnapshotAnswer(FALSE, TRUE, ErrorBody),
              SnapshotAnswer(FALSE, FALSE, ErrorBody),
              [rejected |-> TRUE]}

\* an entry of a !ticker@arr frame
Delta(s) == [isNull |-> FALSE, s |-> s, c |-> "3", q |-> "5", P |-> "4"]
NullItem == [isNull |-> TRUE]

Frames ==
    { [text |-> "garbage"],
      [text |-> "json", data |-> [tag |-> "none"]],
      [text |-> "json", data |-> [tag |-> "object", value |-> Delta("AUSDT")]],
      [text |-> "json", data |-> [tag |-> "array", value |-> <<Delta("BUSDT")>>]],
      [text |-> "json", data |-> [tag |-> "array",
                                  value |-> <<Delta("BUSDT"), Delta("AUSDT")>>]],
      [text |-> "json", data |-> [tag |-> "array",
                                  value |-> <<Delta("AUSDT"), NullItem>>]] }

\* a sub-request of fetchDetailedStats: OK with a body, not OK (null), or a
\* fetch that rejects
SubOk(json) == [ok |-> TRUE, rejected |-> FALSE, json |-> json]
SubNotOk == [ok |-> FALSE, rejected |-> FALSE]
SubRejected == [ok |-> FALSE, rejected |-> TRUE]

\* daily bars, of which the code reads the close (column 4); the bar 30 days
\* back closes at 2, every other bar at 1
Klines(n) == [i \in 1..n |-> IF i = n - 30 THEN "2" ELSE "1"]

StatsResponses ==
    { [r1h |-> SubOk([priceChangePercent |-> "7"]),
       r4h |-> SubOk([priceChangePercent |-> "8"]),
       klines |-> SubOk(Klines(32))],
      [r1h |-> SubOk([priceChangePercent |-> "7"]),
       r4h |-> SubNotOk,
       klines |-> SubOk(Klines(8))],
      [r1h |-> SubOk([priceChangePercent |-> "7"]),
       r4h |-> SubNotOk,
       klines |-> SubOk(Klines(32))],
      [r1h |-> SubOk([priceChangePercent |-> "7"]),
       r4h |-> SubRejected,
       klines |-> SubOk(Klines(32))],
      [r1h |-> SubNotOk, r4h |-> SubNotOk, klines |-> SubNotOk] }

----------------------------------------------------------------------------
(* App and VirtualTable rendering *)

\* i.symbol.endsWith(a), for the symbols and quote assets of the model
EndsWith(symbol, a) ==
    <<symbol, a>> \in {<<"AUSDT", "USDT">>, <<"BUSDT", "USDT">>, <<"CUSDT", "USDT">>}

\* filteredData with the initial controls: viewMode 'market', selectedAssets
\* ['USDT'], no search query
FilteredData(tdm) == SelectSeq(tdm, LAMBDA s : EndsWith(s, "USDT"))

\* String.prototype.toLowerCase and the order of < on the lowered symbols
LoweredOrder == <<"ausdt", "busdt", "cusdt">>
ToLowerCase(s) ==
    CASE s = "AUSDT" -> "ausdt"
      [] s = "BUSDT" -> "busdt"
      [] s = "CUSDT" -> "cusdt"
StringRank(str) == CHOOSE i \in DOMAIN LoweredOrder : LoweredOrder[i] = str

\* getVal(obj, field) ?? -999999, and the lowering of a string value
SortValue(obj, field) ==
    IF field = "symbol" THEN StringRank(ToLowerCase(obj.symbol))
    ELSE LET v == CASE field = "change1h" -> obj.changePercent1h
                    [] field = "change4h" -> obj.changePercent4h
                    [] field = "change24h" -> Some(obj.changePercent24h)
                    [] field = "change7d" -> obj.changePercent7d
                    [] field = "change30d" -> obj.changePercent30d
                    [] field = "price" -> Some(obj.price)
                    [] field = "volume" -> Some(obj.volume)
         IN  IF v = Undefined THEN -999999 ELSE v[1]

\* the comparator of sortedData
Compare(a, b, field, dir) ==
    LET valA == SortValue(a, field)
        valB == SortValue(b, field)
    IN  IF valA < valB THEN (IF dir = "asc" THEN -1 ELSE 1)
        ELSE IF valA > valB THEN (IF dir = "asc" THEN 1 ELSE -1)
        ELSE 0

\* mutant: the insertion compares as if the direction were ascending
RECURSIVE InsertSorted_AscOnly(_, _, _, _, _)
InsertSorted_AscOnly(sorted, x, objs, field, dir) ==
    IF sorted = <<>> THEN <<x>>
    ELSE IF Compare(objs[Head(sorted)], objs[x], field, "asc") <= 0
    THEN <<Head(sorted)>> \o InsertSorted_AscOnly(Tail(sorted), x, objs, field, dir)
    ELSE <<x>> \o sorted

\* Array.prototype.sort is stable: x goes behind the elements that do not
\* compare greater than it
RECURSIVE InsertSorted(_, _, _, _, _)
InsertSorted(sorted, x, objs, field, dir) ==
    IF sorted = <<>> THEN <<x>>
    ELSE IF Compare(objs[Head(sorted)], objs[x], field, dir) <= 0
    THEN <<Head(sorted)>> \o InsertSorted(Tail(sorted), x, objs, field, dir)
    ELSE <<x>> \o sorted

RECURSIVE SortSymbols(_, _, _, _)
SortSymbols(seq, objs, field, dir) ==
    IF seq = <<>> THEN <<>>
    ELSE InsertSorted(SortSymbols(SubSeq(seq, 1, Len(seq) - 1), objs, field, dir),
                      seq[Len(seq)], objs, field, dir)

\* the order of < on the symbols as they are
RawOrder == <<"AUSDT", "BUSDT", "CUSDT">>

\* valA, valB of the VirtualTable component file: the switch over sortField
\* has no case for change7d and change30d, and leaves the initial 0
Part001_SortValue(obj, field) ==
    CASE field = "symbol" -> CHOOSE i \in DOMAIN RawOrder : RawOrder[i] = obj.symbol
      [] field = "price" -> obj.price
      [] field = "volume" -> obj.volume
      [] field = "change1h" ->
            IF obj.changePercent1h = Undefined THEN 0 ELSE obj.changePercent1h[1]
      [] field = "change4h" ->
            IF obj.changePercent4h = Undefined THEN 0 ELSE obj.changePercent4h[1]
      [] field = "change24h" -> obj.changePercent24h
      [] OTHER -> 0

\* the comparator of the component file's sortedData
Part001_Compare(a, b, field, dir) ==
    LET valA == Part001_SortValue(a, field)
        valB == Part001_SortValue(b, field)
    IN  IF valA < valB THEN (IF dir = "asc" THEN -1 ELSE 1)
        ELSE IF valA > valB THEN (IF dir = "asc" THEN 1 ELSE -1)
        ELSE 0

RECURSIVE Part001_InsertSorted(_, _, _, _, _)
Part001_InsertSorted(sorted, x, objs, field, dir) ==
    IF sorted = <<>> THEN <<x>>
    ELSE IF Part001_Compare(objs[Head(sorted)], objs[x], field, dir) <= 0
    THEN <<Head(sorted)>> \o Part001_InsertSorted(Tail(sorted), x, objs, field, dir)
    ELSE <<x>> \o sorted

\* sortedData of the component file, as the symbols of its rows
RECURSIVE Part001_SortedData(_, _, _, _)
Part001_SortedData(seq, objs, field, dir) ==
    IF seq = <<>> THEN <<>>
    ELSE Part001_InsertSorted(
             Part001_SortedData(SubSeq(seq, 1, Len(seq) - 1), objs, field, dir),
             seq[Len(seq)], objs, field, dir)

\* ROW_HEIGHT: 46, or 52 with the pixel theme; 48 in the component file
RowHeights == {46, 52, 48}

MathMax(a, b) == IF a >= b THEN a ELSE b
MathMin(a, b) == IF a <= b THEN a ELSE b
\* Math.ceil(a / b) for a >= 0, b > 0
MathCeilDiv(a, b) == (a + b - 1) \div b

\* Math.max(0, Math.floor(scrollTop / ROW_HEIGHT) - OVERSCAN)
startIndex(st, rowHeight) == MathMax(0, (st \div rowHeight) - OVERSCAN)

\* mutant: no overscan rows are added
visibleCount_NoOverscan(ch, rowHeight) ==
    MathCeilDiv(IF ch = 0 THEN DefaultClientHeight ELSE ch, rowHeight)

\* Math.ceil((containerRef.current?.clientHeight || 600) / ROW_HEIGHT) + 2 * OVERSCAN;
\* ch = 0 stands for a height that is 0 or not there yet
visibleCount(ch, rowHeight) ==
    MathCeilDiv(IF ch = 0 THEN DefaultClientHeight ELSE ch, rowHeight) + 2 * OVERSCAN

\* the end of sortedData.slice(startIndex, startIndex + visibleCount), which
\* the component file computes as Math.min(sortedData.length, ...)
endIndex(len, st, ch, rowHeight) ==
    MathMin(len, startIndex(st, rowHeight) + visibleCount(ch, rowHeight))

\* the indices of visibleData in sortedData
visibleData(len, st, ch, rowHeight) ==
    {i \in 0..(len - 1) : startIndex(st, rowHeight) <= i /\ i < endIndex(len, st, ch, rowHeight)}

\* translateY of the row at position index of visibleData
top(index, st, rowHeight) == (startIndex(st, rowHeight) + index) * rowHeight

\* App renders VirtualTable unless it shows the loading or the empty panel
TableShown(tdm, loading) ==
    ~(loading /\ Len(tdm) = 0) /\ Len(FilteredData(tdm)) > 0

\* mutant: the effect does not report the order
SortedAfterRender_Stale(tdm, loading, objs, field, dir, old) == old

\* sortedSymbols after a render: VirtualTable's effect reports
\* sortedData.map(d => d.symbol); without a table the state keeps its value
SortedAfterRender(tdm, loading, objs, field, dir, old) ==
    IF TableShown(tdm, loading)
    THEN SortSymbols(FilteredData(tdm), objs, field, dir)
    ELSE old

\* mutant: the effect has no cleanup
SchedulerEffect_NoCleanup(n, sorted) == n + (IF sorted # <<>> THEN 1 ELSE 0)

\* the scheduler effect re-runs when sortedSymbols or tickerDataMap is a new
\* value: its cleanup clears the interval of the previous run (n of them go),
\* and its body sets one unless sortedSymbols is empty
SchedulerEffect(n, sorted) == IF sorted # <<>> THEN 1 ELSE 0

\* the interval callback's sortedSymbols.find(...)
TickCandidates ==
    {i \in DOMAIN sortedSymbols :
        /\ sortedSymbols[i] \in Range(tickerDataMap)
        /\ \/ objects[sortedSymbols[i]].changePercent7d = Undefined
           \/ objects[sortedSymbols[i]].changePercent30d = Undefined}

\* the index in sortedSymbols that find(...) returns
TickTarget == CHOOSE i \in TickCandidates : \A j \in TickCandidates : i <= j

----------------------------------------------------------------------------
(* Actions *)

Store == [keys |-> tickerMap, objs |-> objects]

\* the store becomes st; with notified, notify() delivers a copy of the Map to
\* the App's callback, which sets tickerDataMap and isLoading and re-renders
Commit(st, notified) ==
    /\ tickerMap' = st.keys
    /\ objects' = st.objs
    /\ IF notified /\ subscribers # <<>>
       THEN /\ tickerDataMap' = st.keys
            /\ isLoading' = (isLoading /\ Len(st.keys) = 0)
            /\ sortedSymbols' = SortedAfterRender(st.keys, isLoading', st.objs,
                                                  sortField, sortDirection,
                                                  sortedSymbols)
            /\ interval' = SchedulerEffect(interval, sortedSymbols')
            /\ intervalAge' = 0
       ELSE UNCHANGED <<tickerDataMap, isLoading, sortedSymbols, interval, intervalAge>>

\* the datasets of the sorting specification: three records in any order of
\* the Map, each with its required numbers and its optional fields known or not
TableSymbols == {"AUSDT", "BUSDT", "CUSDT"}
TableRecord(s, n, o) ==
    [symbol |-> s, price |-> 3 - n, volume |-> n, changePercent24h |-> n - 2,
     changePercent1h |-> o, changePercent4h |-> o,
     changePercent7d |-> o, changePercent30d |-> o]
TableOrders ==
    {seq \in [1..3 -> TableSymbols] : \A i, j \in 1..3 : seq[i] = seq[j] => i = j}

\* A mounted App that shows the table over a delivered dataset, with the
\* initial sort state of VirtualTable.
InitSort ==
    /\ ws = 1
    /\ socks = [k \in SockIds |-> IF k = 1 THEN [readyState |-> "OPEN", url |-> 0]
                                  ELSE ClosedSock]
    /\ timers = <<>>
    /\ reconnectAttempt = 0
    /\ endpointIndex = 0
    /\ tickerMap \in TableOrders
    /\ \E n \in [TableSymbols -> {1, 2}],
          o \in [TableSymbols -> {Undefined, Some(-1), Some(1)}] :
          objects = [s \in TableSymbols |-> TableRecord(s, n[s], o[s])]
    /\ subscribers = <<1>>
    /\ pendingFetches = {}
    /\ statsCalls = [s \in Symbols |-> 0]
    /\ snapshotCalls = [d \in 0..(NumDomains - 1) |-> 0]
    /\ mounted = TRUE
    /\ mounts = 1
    /\ tickerDataMap = tickerMap
    /\ isLoading = FALSE
    /\ loadingTimer = FALSE
    /\ sortField = "volume"
    /\ sortDirection = "desc"
    /\ sortedSymbols = SortSymbols(FilteredData(tickerDataMap), objects, sortField,
                                   sortDirection)
    /\ interval = SchedulerEffect(0, sortedSymbols)
    /\ intervalAge = 0
    /\ scrollTop = 0
    /\ clientHeight = 0
    /\ disconnectRequested = FALSE
    /\ closesSinceOpen = 0

\* the scroll offsets and container heights of the windowing specification
ScrollOffsets == {i * ScrollStep : i \in 0..MaxScrollSteps}
ViewportHeights == {0, 1, 46, 100, 600, 601, 900}

\* A mounted App that shows the table, not yet scrolled.
InitWindow ==
    /\ InitSort
    /\ tickerMap = <<"AUSDT", "BUSDT", "CUSDT">>
    /\ objects = [s \in TableSymbols |-> TableRecord(s, 1, Undefined)]

Init ==
    /\ ws = 0
    /\ socks = [k \in SockIds |-> ClosedSock]
    /\ timers = <<>>
    /\ reconnectAttempt = 0
    /\ endpointIndex = 0
    /\ tickerMap = <<>>
    /\ objects = <<>>
    /\ subscribers = <<>>
    /\ pendingFetches = {}
    /\ statsCalls = [s \in Symbols |-> 0]
    /\ snapshotCalls = [d \in 0..(NumDomains - 1) |-> 0]
    /\ mounted = FALSE
    /\ mounts = 0
    /\ tickerDataMap = <<>>
    /\ isLoading = TRUE
    /\ loadingTimer = FALSE
    /\ sortedSymbols = <<>>
    /\ sortField = "volume"
    /\ sortDirection = "desc"
    /\ interval = 0
    /\ intervalAge = 0
    /\ scrollTop = 0
    /\ clientHeight = 0
    /\ disconnectRequested = FALSE
    /\ closesSinceOpen = 0

\* BinanceService.connect(): fetchInitialSnapshot() runs to its first await,
\* then connectWebSocket()
Connect ==
    /\ snapshotCalls' = [snapshotCalls EXCEPT ![0] = @ + 1]
    /\ LET c == ConnectWebSocket(ws, socks)
       IN  ws' = c[1] /\ socks' = c[2]

\* BinanceService.disconnect(): this.ws?.close()
Disconnect ==
    IF ws # 0 /\ socks[ws].readyState \in {"CONNECTING", "OPEN"}
    THEN socks' = [socks EXCEPT ![ws].readyState = "CLOSING"]
    ELSE socks' = socks

\* App mount effect: connect(), subscribe(cb), the 10 s timeout; the component
\* starts from its useState defaults
Mount ==
    /\ ~mounted
    /\ mounts < MaxMounts
    /\ CanConnect
    /\ mounted' = TRUE
    /\ mounts' = mounts + 1
    /\ Connect
    /\ subscribers' = Append(subscribers, mounts + 1)
    /\ tickerDataMap' = tickerMap
    /\ isLoading' = (Len(tickerMap) = 0)
    /\ loadingTimer' = TRUE
    /\ sortField' = "volume"
    /\ sortDirection' = "desc"
    /\ sortedSymbols' = SortedAfterRender(tickerMap, isLoading', objects,
                                          "volume", "desc", <<>>)
    /\ interval' = SchedulerEffect(0, sortedSymbols')
    /\ intervalAge' = 0
    /\ scrollTop' = 0
    /\ clientHeight' = 0
    /\ disconnectRequested' = FALSE
    /\ UNCHANGED <<timers, reconnectAttempt, endpointIndex, tickerMap, objects,
                   pendingFetches, statsCalls, closesSinceOpen>>

\* mutant: the cleanup does not call the unsubscribe function
Unmount_KeepSubscriber ==
    /\ mounted
    /\ mounted' = FALSE
    /\ loadingTimer' = FALSE
    /\ subscribers' = subscribers
    /\ disconnectRequested' =
          (ws # 0 /\ socks[ws].readyState \in {"CONNECTING", "OPEN"})
    /\ Disconnect
    /\ tickerDataMap' = <<>>
    /\ isLoading' = TRUE
    /\ sortedSymbols' = <<>>
    /\ sortField' = "volume"
    /\ sortDirection' = "desc"
    /\ interval' = 0
    /\ intervalAge' = 0
    /\ scrollTop' = 0
    /\ clientHeight' = 0
    /\ UNCHANGED <<ws, timers, reconnectAttempt, endpointIndex, tickerMap, objects,
                   pendingFetches, statsCalls, snapshotCalls, mounts,
                   closesSinceOpen>>

\* App unmount cleanup: clearTimeout, unsubscribe, disconnect(); the component
\* state is gone
Unmount ==
    /\ mounted
    /\ mounted' = FALSE
    /\ loadingTimer' = FALSE
    /\ subscribers' = SelectSeq(subscribers, LAMBDA cb : cb # mounts)
    /\ disconnectRequested' =
          (ws # 0 /\ socks[ws].readyState \in {"CONNECTING", "OPEN"})
    /\ Disconnect
    /\ tickerDataMap' = <<>>
    /\ isLoading' = TRUE
    /\ sortedSymbols' = <<>>
    /\ sortField' = "volume"
    /\ sortDirection' = "desc"
    /\ interval' = 0
    /\ intervalAge' = 0
    /\ scrollTop' = 0
    /\ clientHeight' = 0
    /\ UNCHANGED <<ws, timers, reconnectAttempt, endpointIndex, tickerMap, objects,
                   pendingFetches, statsCalls, snapshotCalls, mounts,
                   closesSinceOpen>>

\* ws.onopen
SockOpen(k) ==
    /\ socks[k].readyState = "CONNECTING"
    /\ socks' = [socks EXCEPT ![k].readyState = "OPEN"]
    /\ reconnectAttempt' = 0
    /\ closesSinceOpen' = 0
    /\ UNCHANGED <<ws, timers, endpointIndex, tickerMap, objects, subscribers,
                   pendingFetches, statsCalls, snapshotCalls, mounted, mounts,
                   appVars, intervalAge, disconnectRequested>>

\* mutant: the close handler keeps the endpoint
SockClose_KeepEndpoint(k) ==
    /\ socks[k].readyState # "CLOSED"
    /\ reconnectAttempt < MaxAttempt
    /\ socks' = [socks EXCEPT ![k] = ClosedSock]
    /\ ws' = 0
    /\ endpointIndex' = endpointIndex
    /\ timers' = Append(timers, ReconnectDelay(reconnectAttempt))
    /\ reconnectAttempt' = reconnectAttempt + 1
    /\ closesSinceOpen' = closesSinceOpen + 1
    /\ UNCHANGED <<tickerMap, objects, subscribers, pendingFetches, statsCalls,
                   snapshotCalls, mounted, mounts, appVars, intervalAge,
                   disconnectRequested>>

\* ws.onclose
SockClose(k) ==
    /\ socks[k].readyState # "CLOSED"
    /\ reconnectAttempt < MaxAttempt
    /\ socks' = [socks EXCEPT ![k] = ClosedSock]
    /\ ws' = 0
    /\ endpointIndex' = (endpointIndex + 1) % NumEndpoints
    /\ timers' = Append(timers, ReconnectDelay(reconnectAttempt))
    /\ reconnectAttempt' = reconnectAttempt + 1
    /\ closesSinceOpen' = closesSinceOpen + 1
    /\ UNCHANGED <<tickerMap, objects, subscribers, pendingFetches, statsCalls,
                   snapshotCalls, mounted, mounts, appVars, intervalAge,
                   disconnectRequested>>

\* the reconnect timer fires: () => this.connectWebSocket()
TimerFire(i) ==
    /\ i \in DOMAIN timers
    /\ CanConnect
    /\ timers' = RemoveAt(timers, i)
    /\ LET c == ConnectWebSocket(ws, socks)
       IN  ws' = c[1] /\ socks' = c[2]
    /\ UNCHANGED <<reconnectAttempt, endpointIndex, tickerMap, objects, subscribers,
                   pendingFetches, statsCalls, snapshotCalls, mounted, mounts,
                   appVars, intervalAge, histVars>>

\* ws.onmessage of socket k
SockMessage(k, frame) ==
    /\ socks[k].readyState = "OPEN"
    /\ LET r == OnMessage(frame, Store)
       IN  Commit(r.st, r.notified)
    /\ UNCHANGED <<connVars, subscribers, pendingFetches, statsCalls, snapshotCalls,
                   mounted, mounts, loadingTimer, sortField, sortDirection, histVars,
                   tableVars>>

\* mutant: the ok flag of the exchange-metadata response is not looked at
DomainAccepted_TickerOnly(resp) == ~resp.rejected /\ resp.tickerOk

\* the try block of a domain gets past `if (!tickerRes.ok || !infoRes.ok) continue`
\* and nothing in it throws
DomainAccepted(resp) == ~resp.rejected /\ resp.tickerOk /\ resp.infoOk

\* mutant: an accepted snapshot replaces the store instead of merging into it
SnapshotResponse_Replace(d, resp) ==
    /\ snapshotCalls[d] > 0
    /\ IF DomainAccepted(resp)
       THEN /\ Commit(ApplySnapshotRows(resp.body.ticker,
                                        TradingSymbols(resp.body.info),
                                        [keys |-> <<>>, objs |-> <<>>]), TRUE)
            /\ snapshotCalls' = [snapshotCalls EXCEPT ![d] = @ - 1]
       ELSE IF d + 1 < NumDomains
       THEN /\ snapshotCalls' = [snapshotCalls EXCEPT ![d] = @ - 1, ![d + 1] = @ + 1]
            /\ UNCHANGED <<tickerMap, objects, tickerDataMap, isLoading, sortedSymbols,
                           interval, intervalAge>>
       ELSE /\ Commit(Store, TRUE)
            /\ snapshotCalls' = [snapshotCalls EXCEPT ![d] = @ - 1]
    /\ UNCHANGED <<connVars, subscribers, pendingFetches, statsCalls, mounted, mounts,
                   loadingTimer, sortField, sortDirection, histVars, tableVars>>

\* mutant: no notify() after the loop over the domains
SnapshotResponse_NoFinalNotify(d, resp) ==
    /\ snapshotCalls[d] > 0
    /\ IF DomainAccepted(resp)
       THEN /\ Commit(ApplySnapshotRows(resp.body.ticker,
                                        TradingSymbols(resp.body.info), Store), TRUE)
            /\ snapshotCalls' = [snapshotCalls EXCEPT ![d] = @ - 1]
       ELSE IF d + 1 < NumDomains
       THEN /\ snapshotCalls' = [snapshotCalls EXCEPT ![d] = @ - 1, ![d + 1] = @ + 1]
            /\ UNCHANGED <<tickerMap, objects, tickerDataMap, isLoading, sortedSymbols,
                           interval, intervalAge>>
       ELSE /\ snapshotCalls' = [snapshotCalls EXCEPT ![d] = @ - 1]
            /\ UNCHANGED <<tickerMap, objects, tickerDataMap, isLoading, sortedSymbols,
                           interval, intervalAge>>
    /\ UNCHANGED <<connVars, subscribers, pendingFetches, statsCalls, mounted, mounts,
                   loadingTimer, sortField, sortDirection, histVars, tableVars>>

\* fetchInitialSnapshot resumes with the answer of domain d
SnapshotResponse(d, resp) ==
    /\ snapshotCalls[d] > 0
    /\ IF DomainAccepted(resp)
       THEN /\ Commit(ApplySnapshotRows(resp.body.ticker,
                                        TradingSymbols(resp.body.info), Store), TRUE)
            /\ snapshotCalls' = [snapshotCalls EXCEPT ![d] = @ - 1]
       ELSE IF d + 1 < NumDomains
       THEN /\ snapshotCalls' = [snapshotCalls EXCEPT ![d] = @ - 1, ![d + 1] = @ + 1]
            /\ UNCHANGED <<tickerMap, objects, tickerDataMap, isLoading, sortedSymbols,
                           interval, intervalAge>>
       ELSE /\ Commit(Store, TRUE)
            /\ snapshotCalls' = [snapshotCalls EXCEPT ![d] = @ - 1]
    /\ UNCHANGED <<connVars, subscribers, pendingFetches, statsCalls, mounted, mounts,
                   loadingTimer, sortField, sortDirection, histVars, tableVars>>

\* mutant: no check of pendingFetches
FetchDetailedStats_NoGuard(symbol) ==
    /\ pendingFetches' = pendingFetches \cup {symbol}
    /\ statsCalls' = [statsCalls EXCEPT ![symbol] = @ + 1]

\* fetchDetailedStats(symbol) up to its await
FetchDetailedStats(symbol) ==
    IF symbol \in pendingFetches
    THEN UNCHANGED <<pendingFetches, statsCalls>>
    ELSE /\ pendingFetches' = pendingFetches \cup {symbol}
         /\ statsCalls' = [statsCalls EXCEPT ![symbol] = @ + 1]

\* the scheduler's interval callback
Tick ==
    /\ interval > 0
    /\ TickCandidates # {}
    /\ LET target == sortedSymbols[TickTarget]
       IN  /\ statsCalls[target] < MaxStatsCalls
           /\ FetchDetailedStats(target)
    /\ intervalAge' = 0
    /\ UNCHANGED <<connVars, tickerMap, objects, subscribers, snapshotCalls, mounted,
                   mounts, appVars, histVars>>

\* mutant: the entry is deleted on the success path only
StatsFinally_OnSuccess(symbol, resp) ==
    IF resp.r1h.rejected \/ resp.r4h.rejected \/ resp.klines.rejected
    THEN pendingFetches
    ELSE pendingFetches \ {symbol}

\* the finally block of fetchDetailedStats
StatsFinally(symbol, resp) == pendingFetches \ {symbol}

\* fetchDetailedStats(symbol) from its await to its end
StatsDone(symbol, resp) ==
    /\ statsCalls[symbol] > 0
    /\ LET r == StatsCompletion(symbol, resp, Store)
       IN  Commit(r.st, r.notified)
    /\ pendingFetches' = StatsFinally(symbol, resp)
    /\ statsCalls' = [statsCalls EXCEPT ![symbol] = @ - 1]
    /\ UNCHANGED <<connVars, subscribers, snapshotCalls, mounted, mounts,
                   loadingTimer, sortField, sortDirection, histVars, tableVars>>

\* mutant: selecting another field keeps the direction
HandleSort_KeepDirection(field) ==
    /\ mounted
    /\ TableShown(tickerDataMap, isLoading)
    /\ IF sortField = field
       THEN /\ sortDirection' = (IF sortDirection = "asc" THEN "desc" ELSE "asc")
            /\ sortField' = sortField
       ELSE /\ sortField' = field
            /\ sortDirection' = sortDirection
    /\ sortedSymbols' = SortedAfterRender(tickerDataMap, isLoading, objects,
                                          sortField', sortDirection', sortedSymbols)
    /\ interval' = SchedulerEffect(interval, sortedSymbols')
    /\ intervalAge' = 0
    /\ UNCHANGED <<connVars, storeVars, subscribers, snapshotCalls, mounted, mounts,
                   tickerDataMap, isLoading, loadingTimer, histVars, tableVars>>

\* VirtualTable.handleSort(field), and the re-render it causes
HandleSort(field) ==
    /\ mounted
    /\ TableShown(tickerDataMap, isLoading)
    /\ IF sortField = field
       THEN /\ sortDirection' = (IF sortDirection = "asc" THEN "desc" ELSE "asc")
            /\ sortField' = sortField
       ELSE /\ sortField' = field
            /\ sortDirection' = "desc"
    /\ sortedSymbols' = SortedAfterRender(tickerDataMap, isLoading, objects,
                                          sortField', sortDirection', sortedSymbols)
    /\ interval' = SchedulerEffect(interval, sortedSymbols')
    /\ intervalAge' = 0
    /\ UNCHANGED <<connVars, storeVars, subscribers, snapshotCalls, mounted, mounts,
                   tickerDataMap, isLoading, loadingTimer, histVars, tableVars>>

\* mutant: the timeout callback leaves isLoading as it is
LoadingTimeout_KeepLoading ==
    /\ loadingTimer
    /\ loadingTimer' = FALSE
    /\ isLoading' = isLoading
    /\ sortedSymbols' = SortedAfterRender(tickerDataMap, isLoading, objects, sortField,
                                          sortDirection, sortedSymbols)
    /\ interval' = SchedulerEffect(interval, sortedSymbols')
    /\ UNCHANGED <<connVars, storeVars, subscribers, snapshotCalls, mounted, mounts,
                   tickerDataMap, sortField, sortDirection, intervalAge, histVars,
                   tableVars>>

\* setTimeout(() => setIsLoading(false), 10000)
LoadingTimeout ==
    /\ loadingTimer
    /\ loadingTimer' = FALSE
    /\ isLoading' = FALSE
    /\ sortedSymbols' = SortedAfterRender(tickerDataMap, FALSE, objects, sortField,
                                          sortDirection, sortedSymbols)
    /\ interval' = SchedulerEffect(interval, sortedSymbols')
    /\ UNCHANGED <<connVars, storeVars, subscribers, snapshotCalls, mounted, mounts,
                   tickerDataMap, sortField, sortDirection, intervalAge, histVars,
                   tableVars>>

\* the scroll listener's setScrollTop(container.scrollTop); the render that
\* follows reads the container's clientHeight
Scroll(y, h) ==
    /\ mounted
    /\ TableShown(tickerDataMap, isLoading)
    /\ scrollTop' = y
    /\ clientHeight' = h
    /\ UNCHANGED <<connVars, storeVars, subscribers, snapshotCalls, mounted, mounts,
                   tickerDataMap, isLoading, loadingTimer, sortedSymbols, sortField,
                   sortDirection, interval, intervalAge, histVars>>

\* time passes, less than the 200 ms of the pending interval
Elapse ==
    /\ interval > 0
    /\ intervalAge = 0
    /\ intervalAge' = 1
    /\ UNCHANGED <<connVars, storeVars, subscribers, snapshotCalls, mounted, mounts,
                   appVars, histVars>>

----------------------------------------------------------------------------
(* Specifications *)

\* The connection lifecycle: App mounts and unmounts, the channel opens and
\* closes, reconnect timers fire.
NextConn ==
    \/ Mount
    \/ Unmount
    \/ \E k \in SockIds : SockOpen(k)
    \/ \E k \in SockIds : SockClose(k)
    \/ \E i \in DOMAIN timers : TimerFire(i)

\* The data plane: frames, snapshot answers, scheduler ticks, enrichment
\* answers, sort clicks, the loading timeout.
NextData ==
    \/ \E k \in SockIds, frame \in Frames : SockMessage(k, frame)
    \/ \E d \in DOMAIN snapshotCalls, resp \in SnapshotResponses :
          SnapshotResponse(d, resp)
    \/ Tick
    \/ \E s \in Symbols, resp \in StatsResponses : StatsDone(s, resp)
    \/ \E f \in ClickedFields : HandleSort(f)
    \/ LoadingTimeout

\* The data plane over a channel that opens and is not lost.
NextStore ==
    \/ Mount
    \/ Unmount
    \/ \E k \in SockIds : SockOpen(k)
    \/ NextData

\* One session of the App: it mounts, the channel opens, the data plane runs.
NextFeed ==
    \/ Mount
    \/ \E k \in SockIds : SockOpen(k)
    \/ NextData

\* One session of the App, with the time between two scheduler ticks.
NextTimed ==
    \/ NextFeed
    \/ Elapse

\* One session of the App over a channel that is lost and reconnected: the
\* publishes of the bootstrap and of the push frames, and the 10 s timeout.
NextSession ==
    \/ Mount
    \/ \E k \in SockIds : SockOpen(k)
    \/ \E k \in SockIds : SockClose(k)
    \/ \E i \in DOMAIN timers : TimerFire(i)
    \/ \E k \in SockIds, frame \in Frames : SockMessage(k, frame)
    \/ \E d \in DOMAIN snapshotCalls, resp \in SnapshotResponses :
          SnapshotResponse(d, resp)
    \/ LoadingTimeout

\* The clicks on the column headers of a table that is shown.
NextSort == \E f \in SortFields : HandleSort(f)

\* The scrolling of a table that is shown.
NextWindow == \E y \in ScrollOffsets, h \in ViewportHeights : Scroll(y, h)

Next == NextConn \/ NextData

\* The whole program.
Spec == Init /\ [][Next]_vars

\* The two halves of Spec that the properties are checked under.  The actions
\* of NextData leave ws, socks, timers, reconnectAttempt, endpointIndex,
\* mounted and mounts unchanged and no guard of NextConn reads what they write,
\* so the behaviours of Spec and of SpecConn agree on the connection state.
\* SockClose and TimerFire leave the store and the App state unchanged, and
\* the data plane reads the sockets only to find an open one.
SpecConn == Init /\ [][NextConn]_vars
SpecData == Init /\ [][NextStore]_vars

\* SpecData without the unmount: what one handler does to the store does not
\* depend on how many times App was mounted, and the properties of single
\* handlers are checked here.
SpecFeed == Init /\ [][NextFeed]_vars

\* The loading state of one session; the event loop runs the 10 s timeout
\* when it is due.
SpecSession == Init /\ [][NextSession]_vars
SpecSessionLive == SpecSession /\ WF_vars(LoadingTimeout)

\* sortedData over every dataset, sort field and direction.
SpecSort == InitSort /\ [][NextSort]_vars

\* The window of rows over every scroll offset and container height.
SpecWindow == InitWindow /\ [][NextWindow]_vars

\* SpecFeed in which the interval keeps firing and every enrichment fetch is
\* answered.
SpecFeedLive ==
    /\ SpecFeed
    /\ WF_vars(Tick)
    /\ WF_vars(\E s \in Symbols, resp \in StatsResponses : StatsDone(s, resp))

\* SpecFeed with the passing of time on the scheduler's interval.
SpecTimed == Init /\ [][NextTimed]_vars

\* The event loop runs every timer that is due.
SpecConnLive == SpecConn /\ WF_vars(\E i \in DOMAIN timers : TimerFire(i))

----------------------------------------------------------------------------
(* Properties *)

OptionalFields(rec) ==
    <<rec.changePercent1h, rec.changePercent4h, rec.changePercent7d,
      rec.changePercent30d>>

RequiredFields(rec) == <<rec.symbol, rec.price, rec.volume, rec.changePercent24h>>

\* the symbols a frame carries
FrameSymbols(frame) ==
    IF frame.text # "json" \/ frame.data.tag = "none" THEN {}
    ELSE LET data == IF frame.data.tag = "array" THEN frame.data.value
                     ELSE <<frame.data.value>>
         IN  {data[i].s : i \in {j \in DOMAIN data : ~data[j].isNull}}

\* C1: once disconnect() has closed a Connecting or Open channel, and until
\* connect() is called again, no step schedules a reconnect timer and no step
\* starts a connection attempt.
C1_DisconnectSuppressesReconnect ==
    [][(disconnectRequested /\ disconnectRequested')
          => /\ Len(timers') <= Len(timers)
             /\ \A k \in SockIds : socks'[k].readyState = "CONNECTING"
                                      => socks[k].readyState = "CONNECTING"]_vars

\* C2: a push delta or an enrichment write changes no record value visible
\* through the snapshot the subscriber already holds.  (A snapshot merge stores
\* new objects, so it is not among the steps of this formula.)
C2_SnapshotIndependent ==
    [][((\E k \in SockIds, frame \in Frames : SockMessage(k, frame))
          \/ (\E s \in Symbols, resp \in StatsResponses : StatsDone(s, resp)))
          => \A s \in Range(tickerDataMap) : objects'[s] = objects[s]]_vars

\* C3: for every symbol at most one fetchDetailedStats invocation is
\* outstanding, whatever the interleaving of ticks, order changes and
\* completions.
C3_OneFetchPerSymbol == \A s \in Symbols : statsCalls[s] <= 1

\* a tick is about to call fetchDetailedStats(s) while a fetch for s is outstanding
C3_Witness ==
    /\ mounted
    /\ sortedSymbols # <<>>
    /\ TickCandidates # {}
    /\ statsCalls[sortedSymbols[TickTarget]] = 1

\* C4: a symbol is in pendingFetches exactly while a fetch for it is
\* outstanding, and every completion, whatever its outcome, removes it.
C4_PendingWhileOutstanding ==
    /\ [](pendingFetches = {s \in Symbols : statsCalls[s] > 0})
    /\ [][\A s \in Symbols, resp \in StatsResponses :
             StatsDone(s, resp) => s \notin pendingFetches']_vars

\* a fetch left the 30d field unknown, and a new fetch for the symbol is outstanding
C4_Witness ==
    \E s \in DOMAIN objects :
        /\ objects[s].changePercent1h # Undefined
        /\ objects[s].changePercent30d = Undefined
        /\ s \in pendingFetches
        /\ statsCalls[s] = 1

\* C5: a frame of push deltas leaves the optional fields of every record as
\* they were, creates records with their optional fields undefined, and
\* changes or creates records of the symbols it carries only.
C5_DeltaKeepsEnrichment ==
    [][\A k \in SockIds, frame \in Frames :
          SockMessage(k, frame)
             => /\ \A s \in DOMAIN objects :
                      /\ s \in DOMAIN objects'
                      /\ OptionalFields(objects'[s]) = OptionalFields(objects[s])
                      /\ objects'[s].symbol = objects[s].symbol
                      /\ s \notin FrameSymbols(frame) => objects'[s] = objects[s]
                /\ \A s \in DOMAIN objects' \ DOMAIN objects :
                      /\ s \in FrameSymbols(frame)
                      /\ OptionalFields(objects'[s]) =
                            <<Undefined, Undefined, Undefined, Undefined>>]_vars

\* a delta (price 3) was applied to a record enriched at the snapshot price 2
C5_Witness ==
    \E s \in DOMAIN objects :
        /\ objects[s].price = 3
        /\ objects[s].changePercent1h = Some(7)
        /\ objects[s].changePercent7d = Some(100)

\* C6: an enrichment completion for s changes no record but that of s, creates
\* none, leaves price, volume and changePercent24h alone, writes an optional
\* field only when its sub-request returned a value, and never makes a field
\* undefined; when every sub-request fails the store is unchanged.
C6_EnrichmentWritesReturnedFields ==
    [][\A s \in Symbols, resp \in StatsResponses :
          StatsDone(s, resp)
             => /\ tickerMap' = tickerMap
                /\ DOMAIN objects' = DOMAIN objects
                /\ \A x \in DOMAIN objects :
                      /\ RequiredFields(objects'[x]) = RequiredFields(objects[x])
                      /\ x # s => objects'[x] = objects[x]
                      /\ \A i \in 1..4 :
                            OptionalFields(objects[x])[i] # Undefined
                               => OptionalFields(objects'[x])[i] # Undefined
                /\ s \in DOMAIN objects =>
                      /\ ~resp.r1h.ok =>
                            objects'[s].changePercent1h = objects[s].changePercent1h
                      /\ ~resp.r4h.ok =>
                            objects'[s].changePercent4h = objects[s].changePercent4h
                      /\ ~resp.klines.ok =>
                            /\ objects'[s].changePercent7d = objects[s].changePercent7d
                            /\ objects'[s].changePercent30d = objects[s].changePercent30d
                /\ (~resp.r1h.ok /\ ~resp.r4h.ok /\ ~resp.klines.ok)
                      => objects' = objects]_vars

\* a completion wrote 1h and 7d and left 4h and 30d unknown
C6_Witness ==
    \E s \in DOMAIN objects :
        /\ objects[s].changePercent1h = Some(7)
        /\ objects[s].changePercent4h = Undefined
        /\ objects[s].changePercent7d # Undefined
        /\ objects[s].changePercent30d = Undefined
        /\ statsCalls[s] = 0

\* C7: whatever happens to the other sub-requests of a fetch, a 1h or 4h
\* sub-request that returned a value has it written to the record.
C7_PartialSuccessWritten ==
    [][\A s \in Symbols, resp \in StatsResponses :
          (StatsDone(s, resp) /\ s \in DOMAIN objects)
             => /\ resp.r1h.ok =>
                      objects'[s].changePercent1h =
                         Some(ParseFloat(resp.r1h.json.priceChangePercent))
                /\ resp.r4h.ok =>
                      objects'[s].changePercent4h =
                         Some(ParseFloat(resp.r4h.json.priceChangePercent))]_vars

\* C8: connect() while the channel is Connecting or Open opens no channel and
\* starts no snapshot fetch.
C8_ConnectIdempotent ==
    [][(Mount /\ ws # 0 /\ Live(ws)) => UNCHANGED <<ws, socks, snapshotCalls>>]_vars

\* min(1000 * 1.5^n, 10000) ms in 1/32 ms: 1000, 1500, 2250, 3375, 5062.5,
\* 7593.75, then 10000
C9_Expected(n) ==
    IF n >= 6 THEN 320000
    ELSE <<32000, 48000, 72000, 108000, 162000, 243000>>[n + 1]

\* C9: the n-th consecutive close since the last open schedules the reconnect
\* after min(1000 * 1.5^n, 10000) ms; the delays never decrease with n and
\* never exceed 10000 ms; an open resets reconnectAttempt to 0.
C9_ReconnectDelay ==
    /\ [][\A k \in SockIds :
             SockClose(k) => timers'[Len(timers')] = C9_Expected(closesSinceOpen)]_vars
    /\ [][\A k \in SockIds : SockOpen(k) => reconnectAttempt' = 0]_vars
    /\ [](/\ \A i \in DOMAIN timers : timers[i] <= 10000 * UnitsPerMs
          /\ \A n \in 0..(MaxAttempt - 1) : ReconnectDelay(n) <= ReconnectDelay(n + 1))

\* the seventh consecutive close scheduled the capped delay
C9_Witness ==
    /\ closesSinceOpen = 7
    /\ timers # <<>>
    /\ timers[Len(timers)] = 10000 * UnitsPerMs

\* disconnect() has not been called: App has mounted at most once and not unmounted
NeverDisconnected == mounts <= 1 /\ (mounts = 1 => mounted)

C11_MutationPublished ==
    [][(<<tickerMap, objects>>' # <<tickerMap, objects>> /\ subscribers # <<>>)
          => tickerDataMap' = tickerMap']_vars

\* an unparseable frame, a frame without data, or an array with a null entry
Malformed(frame) ==
    \/ frame.text # "json"
    \/ frame.data.tag = "none"
    \/ /\ frame.data.tag = "array"
       /\ \E i \in DOMAIN frame.data.value : frame.data.value[i].isNull

\* C12: a malformed frame leaves the store and the connection as they were.
C12_MalformedFrameDropped ==
    [][\A k \in SockIds, frame \in Frames :
          (SockMessage(k, frame) /\ Malformed(frame))
             => UNCHANGED <<tickerMap, objects, connVars>>]_vars

\* the record a delta creates for a symbol the store does not hold
C13_NewRecord(item) ==
    [symbol |-> item.s, price |-> ParseFloat(item.c), volume |-> ParseFloat(item.q),
     changePercent24h |-> ParseFloat(item.P),
     changePercent1h |-> Undefined, changePercent4h |-> Undefined,
     changePercent7d |-> Undefined, changePercent30d |-> Undefined]

\* the deltas of a frame that the handler reaches: those before a null entry
C13_Reached(frame) ==
    IF frame.text # "json" \/ frame.data.tag = "none" THEN {}
    ELSE LET data == IF frame.data.tag = "array" THEN frame.data.value
                     ELSE <<frame.data.value>>
         IN  {data[i] : i \in {j \in DOMAIN data :
                                   \A h \in 1..j : ~data[h].isNull}}

\* C13: a push delta for a symbol the store does not hold, before or after the
\* bootstrap, adds exactly one record for it, at the end of the Map: the
\* record has the delta's price, volume and 24h change and its optional fields
\* undefined, the store grows by the number of new symbols, and the record of
\* every symbol the frame does not carry is unchanged.
C13_DeltaCreatesPlaceholder ==
    [][\A k \in SockIds, frame \in Frames :
          SockMessage(k, frame)
             => LET new == {item \in C13_Reached(frame) : item.s \notin Range(tickerMap)}
                IN  /\ Len(tickerMap') = Len(tickerMap) + Cardinality({i.s : i \in new})
                    /\ SubSeq(tickerMap', 1, Len(tickerMap)) = tickerMap
                    /\ \A item \in new :
                          /\ item.s \in Range(tickerMap')
                          /\ objects'[item.s] = C13_NewRecord(item)
                    /\ \A s \in Range(tickerMap) \ FrameSymbols(frame) :
                          objects'[s] = objects[s]]_vars

\* the bootstrap accepted one tradable symbol, then a delta added the other
C13_Witness ==
    /\ tickerMap = <<"AUSDT", "BUSDT">>
    /\ objects["AUSDT"].price = 2
    /\ objects["BUSDT"] = C13_NewRecord(Delta("BUSDT"))
    /\ \A d \in DOMAIN snapshotCalls : snapshotCalls[d] = 0

\* C14: no step removes a symbol from the store, and no step moves a key of
\* the Map.
C14_SymbolsNeverShrink ==
    [][/\ Range(tickerMap) \subseteq Range(tickerMap')
       /\ DOMAIN objects \subseteq DOMAIN objects'
       /\ SubSeq(tickerMap', 1, Len(tickerMap)) = tickerMap]_vars

\* BUSDT came by push only; a snapshot that lists AUSDT alone arrived after it
C14_Witness ==
    /\ tickerMap = <<"BUSDT", "AUSDT">>
    /\ objects["BUSDT"].price = 3
    /\ objects["AUSDT"].price = 2
    /\ \A d \in DOMAIN snapshotCalls : snapshotCalls[d] = 0

\* the symbols of a snapshot body whose row has a trade count other than 0 and
\* whose exchange-metadata entry says TRADING
C15_Tradable(body) ==
    {body.ticker[i].symbol :
        i \in {j \in DOMAIN body.ticker :
                  /\ body.ticker[j].count # 0
                  /\ \E h \in DOMAIN body.info :
                        /\ body.info[h].symbol = body.ticker[j].symbol
                        /\ body.info[h].status = "TRADING"}}

\* both responses of the domain were OK and nothing was thrown
C15_BothOk(resp) == ~resp.rejected /\ resp.tickerOk /\ resp.infoOk

\* C15: a symbol enters the store only in a step that applies a push frame
\* carrying it, or a snapshot accepted from a domain in which the symbol is
\* TRADING with a trade count other than 0; an accepted snapshot leaves the
\* records of its other symbols as they were.  (The store is empty at first,
\* so every symbol in it entered in one of these two ways.)
C15_RecordProvenance ==
    /\ [][\A s \in Range(tickerMap') \ Range(tickerMap) :
             \/ \E k \in SockIds, frame \in Frames :
                   SockMessage(k, frame) /\ s \in FrameSymbols(frame)
             \/ \E d \in DOMAIN snapshotCalls, resp \in SnapshotResponses :
                   /\ SnapshotResponse(d, resp)
                   /\ C15_BothOk(resp)
                   /\ s \in C15_Tradable(resp.body)]_vars
    /\ [][\A d \in DOMAIN snapshotCalls, resp \in SnapshotResponses :
             (SnapshotResponse(d, resp) /\ C15_BothOk(resp))
                => \A s \in Symbols \ C15_Tradable(resp.body) :
                      /\ s \in Range(tickerMap') <=> s \in Range(tickerMap)
                      /\ s \in Range(tickerMap) => objects'[s] = objects[s]]_vars

\* a snapshot whose AUSDT entry is not TRADING was accepted: BUSDT alone is stored
C15_Witness ==
    /\ tickerMap = <<"BUSDT">>
    /\ objects["BUSDT"].price = 2
    /\ objects["BUSDT"].volume = 3
    /\ \A d \in DOMAIN snapshotCalls : snapshotCalls[d] = 0

C17_AllDomainsFail ==
    [][\A d \in DOMAIN snapshotCalls, resp \in SnapshotResponses :
          (SnapshotResponse(d, resp) /\ ~C15_BothOk(resp))
             => /\ UNCHANGED <<tickerMap, objects>>
                /\ IF d = NumDomains - 1
                   THEN /\ snapshotCalls' = [snapshotCalls EXCEPT ![d] = @ - 1]
                        /\ subscribers # <<>> =>
                              /\ tickerDataMap' = tickerMap
                              /\ isLoading' = (isLoading /\ tickerMap = <<>>)
                   ELSE UNCHANGED <<tickerDataMap, isLoading, sortedSymbols>>]_vars

\* every domain of the only bootstrap failed: the store is empty and App still loads
C17_Witness ==
    /\ mounted
    /\ mounts = 1
    /\ \A d \in DOMAIN snapshotCalls : snapshotCalls[d] = 0
    /\ tickerMap = <<>>
    /\ isLoading

\* the record the App holds for s lacks one of the four optional fields
C18_MissingAny(s) ==
    /\ s \in Range(tickerDataMap)
    /\ \E i \in 1..4 : OptionalFields(objects[s])[i] = Undefined

\* the first position of sortedSymbols whose record lacks an optional field; 0
\* when there is none
C18_First ==
    LET c == {i \in DOMAIN sortedSymbols : C18_MissingAny(sortedSymbols[i])}
    IN  IF c = {} THEN 0 ELSE CHOOSE i \in c : \A j \in c : i <= j

\* C18: a tick that starts a fetch starts it for the first symbol of
\* sortedSymbols whose record lacks any of the 1h, 4h, 7d, 30d fields, and for
\* no other symbol.
C18_TickTargetsFirstMissing ==
    [][Tick => /\ C18_First # 0
               /\ pendingFetches' \subseteq
                     pendingFetches \cup {sortedSymbols[C18_First]}]_vars

\* C19: a record whose 1h field is populated and whose 4h field is still
\* undefined is one the scheduler's scan accepts, so that a tick on which it
\* comes first fetches it again.
C19_PartialResultStaysEligible ==
    mounted =>
        \A i \in DOMAIN sortedSymbols :
            (/\ sortedSymbols[i] \in Range(tickerDataMap)
             /\ objects[sortedSymbols[i]].changePercent1h # Undefined
             /\ objects[sortedSymbols[i]].changePercent4h = Undefined)
                => i \in TickCandidates

\* C20: at most one interval of the scheduler effect is active; a fetch is
\* started only by a callback of that interval, and a callback starts one
\* fetch, for one symbol.
C20_TickIsSoleThrottle ==
    /\ [](interval <= 1)
    /\ [][\A s \in Symbols :
             statsCalls'[s] > statsCalls[s]
                => /\ Tick
                   /\ interval = 1
                   /\ statsCalls' = [statsCalls EXCEPT ![s] = @ + 1]
                   /\ pendingFetches' = pendingFetches \cup {s}]_vars
    /\ [][pendingFetches' \ pendingFetches # {} => Tick]_vars

\* two ticks of the one interval started a fetch each
C20_Witness ==
    /\ interval = 1
    /\ \A s \in Symbols : statsCalls[s] = 1

C27_SortControl ==
    /\ [][(~mounted /\ mounted') => (sortField' = "volume" /\ sortDirection' = "desc")]_vars
    /\ [][\A f \in ClickedFields :
             HandleSort(f)
                => IF f = sortField
                   THEN /\ sortField' = f
                        /\ sortDirection' # sortDirection
                        /\ sortDirection' \in {"asc", "desc"}
                   ELSE /\ sortField' = f
                        /\ sortDirection' = "desc"]_vars
    /\ [][(mounted /\ mounted' /\ <<sortField, sortDirection>>' # <<sortField, sortDirection>>)
             => \E f \in ClickedFields : HandleSort(f)]_vars

\* the symbol column was selected and selected again
C27_Witness ==
    /\ mounted
    /\ sortField = "symbol"
    /\ sortDirection = "asc"

\* C29: at most one socket is Connecting or Open and at most one reconnect
\* timer is pending.
C29_OneLiveChannel ==
    /\ Cardinality({k \in SockIds : Live(k)}) <= 1
    /\ Len(timers) <= 1

\* C30: no step makes an optional field that has a value undefined.
C30_OptionalFieldsMonotone ==
    [][\A s \in DOMAIN objects :
          \A i \in 1..4 :
              OptionalFields(objects[s])[i] # Undefined
                 => OptionalFields(objects'[s])[i] # Undefined]_vars

\* C26: while an interval is pending, the part of its period that has elapsed
\* is lost only when its callback runs: no publish and no change of the order
\* restarts the 200 ms.
C26_TickCadence ==
    [][(interval > 0 /\ interval' > 0 /\ intervalAge' < intervalAge) => Tick]_vars

\* C24: a mounted App that is loading has its 10 s timeout pending, and the
\* timeout ends the loading state, so loading ends even when no data arrives;
\* an App that holds a non-empty Map is not loading; once loading has ended,
\* no publish, close or reconnect of the session makes it true again.
C24_LoadingEnds ==
    /\ []((mounted /\ isLoading) => loadingTimer)
    /\ [][LoadingTimeout => ~isLoading']_vars
    /\ []((mounted /\ tickerDataMap # <<>>) => ~isLoading)
    /\ [][(mounted /\ mounted' /\ ~isLoading) => ~isLoading']_vars
    /\ []((mounted /\ isLoading) => <>(~isLoading))

\* the timeout ended the loading state of an App that never received a record,
\* after the channel was lost
C24_Witness ==
    /\ mounted
    /\ ~isLoading
    /\ ~loadingTimer
    /\ tickerMap = <<>>
    /\ closesSinceOpen >= 1

\* the index of symbol x in the rows
C28_Position(rows, x) == CHOOSE i \in DOMAIN rows : rows[i] = x

\* out holds the symbols of the rows, ordered by the comparator, rows that
\* compare equal in the order of the rows
C28_SortedRows(out, rows, objs, field, dir) ==
    /\ Len(out) = Len(rows)
    /\ Range(out) = Range(rows)
    /\ \A i, j \in DOMAIN out :
          i < j => LET c == Compare(objs[out[i]], objs[out[j]], field, dir)
                   IN  /\ c <= 0
                       /\ c = 0 => C28_Position(rows, out[i]) < C28_Position(rows, out[j])

\* the steps in which VirtualTable gets a new data array, sort field or sort
\* direction, or is rendered for the first time
C28_Recomputes ==
    \/ \E f \in SortFields : HandleSort(f)
    \/ LoadingTimeout
    \/ \E k \in SockIds, frame \in Frames :
          SockMessage(k, frame) /\ OnMessage(frame, Store).notified
    \/ \E s \in Symbols, resp \in StatsResponses :
          StatsDone(s, resp) /\ StatsCompletion(s, resp, Store).notified
    \/ \E d \in DOMAIN snapshotCalls, resp \in SnapshotResponses :
          SnapshotResponse(d, resp) /\ (DomainAccepted(resp) \/ d + 1 = NumDomains)

\* C28: after every step that makes VirtualTable recompute its sorted rows,
\* sortedSymbols is the list of the symbols of the rows sorted by the current
\* field and direction over the records as they are then; no other step of
\* a mounted App changes sortedSymbols, so a tick scans the order computed last.
C28_OrderPublished ==
    /\ [][(C28_Recomputes /\ subscribers # <<>> /\ TableShown(tickerDataMap', isLoading'))
             => C28_SortedRows(sortedSymbols', FilteredData(tickerDataMap'), objects',
                               sortField', sortDirection')]_vars
    /\ [][(mounted /\ mounted' /\ sortedSymbols' # sortedSymbols) => C28_Recomputes]_vars

\* the published order differs from the order of the Map, after a click on
\* the symbol column and a fetch started from the published order
C28_Witness ==
    /\ mounted
    /\ Len(sortedSymbols) = 2
    /\ sortedSymbols # FilteredData(tickerDataMap)
    /\ sortField = "symbol"
    /\ pendingFetches = {sortedSymbols[1]}

\* the direction after a click on the active column
C21_Toggled(dir) == IF dir = "asc" THEN "desc" ELSE "asc"

\* Cmp is a total preorder on the rows, and out is the rows ordered by it:
\* a permutation whose adjacent pairs respect Cmp, equal rows in their order
\* in rows, which leaves one possible output
C21_Sorted(out, rows, Cmp(_, _)) ==
    /\ \A a, b \in Range(rows) : Cmp(a, b) = 0 - Cmp(b, a)
    /\ \A a, b, c \in Range(rows) : (Cmp(a, b) <= 0 /\ Cmp(b, c) <= 0) => Cmp(a, c) <= 0
    /\ Len(out) = Len(rows)
    /\ Range(out) = Range(rows)
    /\ \A i \in 1..(Len(out) - 1) : Cmp(out[i], out[i + 1]) <= 0
    /\ \A i, j \in DOMAIN out :
          (i < j /\ Cmp(out[i], out[j]) = 0)
              => \E k, l \in DOMAIN rows : k < l /\ rows[k] = out[i] /\ rows[l] = out[j]

\* C21: for every dataset, sort field and direction, and after any sequence
\* of clicks, the sorted rows of both VirtualTable implementations are a
\* permutation of the rows whose adjacent pairs respect the comparator, the
\* comparator is a total preorder, the output is the one the dataset, field
\* and direction determine, and two toggles of the direction give it back.
C21_SortIsTotalOrder ==
    LET rows == FilteredData(tickerDataMap)
        twice == C21_Toggled(C21_Toggled(sortDirection))
    IN  /\ C21_Sorted(sortedSymbols, rows,
                      LAMBDA a, b : Compare(objects[a], objects[b], sortField,
                                            sortDirection))
        /\ C21_Sorted(Part001_SortedData(rows, objects, sortField, sortDirection), rows,
                      LAMBDA a, b : Part001_Compare(objects[a], objects[b], sortField,
                                                    sortDirection))
        /\ SortSymbols(rows, objects, sortField, twice) = sortedSymbols
        /\ Part001_SortedData(rows, objects, sortField, twice)
             = Part001_SortedData(rows, objects, sortField, sortDirection)

\* an ascending sort by an optional field that two rows lack has moved the rows
C21_Witness ==
    /\ sortField = "change4h"
    /\ sortDirection = "asc"
    /\ Len(sortedSymbols) = 3
    /\ sortedSymbols # FilteredData(tickerDataMap)
    /\ Cardinality({s \in TableSymbols : objects[s].changePercent4h = Undefined}) = 2

\* the value of the optional field a sort field names
C22_Optional(obj, field) ==
    CASE field = "change1h" -> obj.changePercent1h
      [] field = "change4h" -> obj.changePercent4h
      [] field = "change7d" -> obj.changePercent7d
      [] field = "change30d" -> obj.changePercent30d

\* in out, every row without the field is on the low side of every row with it
C22_Clustered(out, objs, field, dir) ==
    \A i, j \in DOMAIN out :
        (/\ C22_Optional(objs[out[i]], field) = Undefined
         /\ C22_Optional(objs[out[j]], field) # Undefined)
            => IF dir = "asc" THEN i < j ELSE j < i

\* C22: when the sort field is an optional field, the rows that lack it are
\* one block at the low end of the sorted rows (first ascending, last
\* descending), in both VirtualTable implementations.
C22_UnknownRowsCluster ==
    sortField \in {"change1h", "change4h", "change7d", "change30d"}
        => /\ C22_Clustered(sortedSymbols, objects, sortField, sortDirection)
           /\ C22_Clustered(Part001_SortedData(FilteredData(tickerDataMap), objects,
                                               sortField, sortDirection),
                            objects, sortField, sortDirection)

\* the part of C22 that the running VirtualTable meets
C22_AppTableClusters ==
    sortField \in {"change1h", "change4h", "change7d", "change30d"}
        => C22_Clustered(sortedSymbols, objects, sortField, sortDirection)

\* row i of height rowHeight has a pixel inside the viewport of height h at
\* offset st
C23_Intersects(i, st, h, rowHeight) ==
    i * rowHeight < st + h /\ (i + 1) * rowHeight > st

\* C23: at every scroll offset and container height, for every dataset
\* length and row height, the window starts at max(0, floor(offset / rowHeight)
\* - overscan), ends at min(len, start + ceil(height / rowHeight) + 2 * overscan),
\* holds every row that intersects the viewport, and is no longer than
\* ceil(height / rowHeight) + 2 * overscan.
C23_WindowCoversViewport ==
    \A rowHeight \in RowHeights, len \in 0..MaxRows :
        LET height == IF clientHeight = 0 THEN DefaultClientHeight ELSE clientHeight
            most == ((height + rowHeight - 1) \div rowHeight) + 20
            start == startIndex(scrollTop, rowHeight)
            end == endIndex(len, scrollTop, clientHeight, rowHeight)
        IN  /\ start = (IF scrollTop \div rowHeight > 10
                        THEN (scrollTop \div rowHeight) - 10 ELSE 0)
            /\ end = (IF len < start + most THEN len ELSE start + most)
            /\ \A i \in 0..(len - 1) :
                  C23_Intersects(i, scrollTop, clientHeight, rowHeight)
                      => i \in visibleData(len, scrollTop, clientHeight, rowHeight)
            /\ end - start <= most
            /\ Cardinality(visibleData(len, scrollTop, clientHeight, rowHeight)) <= most

\* scrolled into a long dataset: rows are left out on both sides of the window
C23_Witness ==
    /\ scrollTop = 30 * ScrollStep
    /\ clientHeight = 600
    /\ startIndex(scrollTop, 46) > 0
    /\ endIndex(MaxRows, scrollTop, clientHeight, 46) < MaxRows
    /\ \E i \in 0..(MaxRows - 1) : C23_Intersects(i, scrollTop, clientHeight, 46)

\* symbol s is in the consumer order and its record lacks a field the
\* scheduler tracks
C31_Missing(s) ==
    /\ s \in Range(sortedSymbols)
    /\ s \in Range(tickerDataMap)
    /\ \/ objects[s].changePercent7d = Undefined
       \/ objects[s].changePercent30d = Undefined

\* the consumer orders that hold every symbol
C31_Orders ==
    {seq \in [1..Cardinality(Symbols) -> Symbols] :
        \A i, j \in DOMAIN seq : seq[i] = seq[j] => i = j}

\* C31: while the consumer order stays as it is, the interval keeps firing
\* and fetches complete, every symbol of the order whose record lacks a
\* tracked optional field gets a fetch issued for it.
C31_EnrichmentProgress ==
    \A s \in Symbols, order \in C31_Orders :
        (C31_Missing(s) /\ sortedSymbols = order)
            ~> (s \in pendingFetches \/ sortedSymbols # order)

\* the store after frame and then the completion of the fetch for s
C32_DeltaFirst(s, frame, resp) ==
    StatsCompletion(s, resp, OnMessage(frame, Store).st).st

\* the store after the completion of the fetch for s and then frame
C32_CompletionFirst(s, frame, resp) ==
    OnMessage(frame, StatsCompletion(s, resp, Store).st).st

\* C32: whenever a fetch for s is in flight on an open channel, a push frame
\* that carries s and the completion of the fetch leave the same record for s
\* in whichever order they are handled.
C32_DeltaAndEnrichmentCommute ==
    \A s \in Symbols, frame \in Frames, resp \in StatsResponses :
        (/\ statsCalls[s] > 0
         /\ \E k \in SockIds : socks[k].readyState = "OPEN"
         /\ s \in FrameSymbols(frame))
            => C32_DeltaFirst(s, frame, resp).objs[s]
                 = C32_CompletionFirst(s, frame, resp).objs[s]

\* the positions of the rows that are drawn
C33_Drawn(len, rowHeight) ==
    0..(Cardinality(visibleData(len, scrollTop, clientHeight, rowHeight)) - 1)

\* the drawn rows are placed at distinct offsets below the height of the list
C33_RowsWellPlaced ==
    \A rowHeight \in RowHeights, len \in 0..MaxRows :
        /\ \A i \in C33_Drawn(len, rowHeight) :
              /\ top(i, scrollTop, rowHeight) >= 0
              /\ top(i, scrollTop, rowHeight) < len * rowHeight
              /\ top(i, scrollTop, rowHeight) \div rowHeight
                    \in visibleData(len, scrollTop, clientHeight, rowHeight)
        /\ \A i, j \in C33_Drawn(len, rowHeight) :
              top(i, scrollTop, rowHeight) = top(j, scrollTop, rowHeight) => i = j

\* C33: at every scroll offset and container height, for every dataset
\* length and row height, 0 <= start <= end <= len, and the drawn rows are
\* placed at distinct offsets (start + i) * rowHeight below len * rowHeight.
C33_WindowWellFormed ==
    /\ \A rowHeight \in RowHeights, len \in 0..MaxRows :
          LET start == startIndex(scrollTop, rowHeight)
              end == endIndex(len, scrollTop, clientHeight, rowHeight)
          IN  0 <= start /\ start <= end /\ end <= len
    /\ C33_RowsWellPlaced

=============================================================================
